---------------------------- MODULE Spec2Model ----------------------------
(***************************************************************************)
(* A model of the natural-language-to-query pipeline of NLP_SQLizer:       *)
(* the /ai/ask handler (app/routes_ai.py), the SQL validators and the      *)
(* execution gate (app/ai/nl2sql.py), the intent analyzer                  *)
(* (app/ai/query_intent.py) and the document-store variant                 *)
(* (app/ai/nl2mongo.py).                                                   *)
(*                                                                         *)
(* Text is modelled by what the code reads of it.  A question is the set   *)
(* of phrases it is made of; `kw in question_lower` is a substring test,   *)
(* so a keyword is found when it is a substring of one of the phrases.     *)
(* SQL text is the parsed statement (sqlglot's tree: statement kind, LIMIT *)
(* arguments, referenced tables) together with the lower-case tokens the   *)
(* validators scan for.  The language model, the trained model and the     *)
(* database are the environment: their answers are chosen with \E.         *)
(***************************************************************************)
EXTENDS Integers, Sequences, FiniteSets, TLC

(***************************************************************************)
(* Questions                                                               *)
(***************************************************************************)

\* The phrases a question of the model may contain.
Vocabulary ==
    { "average", "how many", "quantity", "total", "per", "by month",
      "unique", "different", "and", "with their", "highest",
      "users", "orders" }

\* The phrases of the questions of the intent analysis runs, in the order
\* they stand in a question.
PhraseOrder ==
    << "average", "how many", "quantity", "total", "per", "by month",
       "unique", "different", "and", "with their", "highest", "top",
       "missing", "today", "either", "whose", "where",
       "users", "orders", "users or orders", "users or orders or items" >>

\* The keywords of the code's keyword lists, and the table names, that are
\* substrings of a phrase.
Substrings(phrase) ==
    CASE phrase = "total"      -> { "total", "to" }
      [] phrase = "by month"   -> { "by month", "nth" }
      [] phrase = "with their" -> { "with their", "with" }
      [] phrase = "orders"     -> { "orders", "or" }
      [] phrase = "top"        -> { "top", "to" }
      [] phrase = "today"      -> { "today", "to" }
      [] phrase = "users or orders" -> { "users", "or", "orders" }
      [] phrase = "users or orders or items" -> { "users", "or", "orders", "items" }
      [] OTHER                 -> { phrase }

\* The words of a phrase that are a table name or the word "or".
Words(phrase) ==
    CASE phrase = "users"  -> << "users" >>
      [] phrase = "orders" -> << "orders" >>
      [] phrase = "users or orders" -> << "users", "or", "orders" >>
      [] phrase = "users or orders or items" ->
             << "users", "or", "orders", "or", "items" >>
      [] OTHER -> <<>>

\* any(kw in question_lower for kw in keywords)
Mentions(q, keywords) ==
    \E phrase \in q : Substrings(phrase) \cap keywords # {}

\* The questions of the request handler's runs.
Questions ==
    { {}, {"how many"}, {"unique"}, {"quantity"}, {"average", "per"} }

\* The most phrases a question of the intent analysis runs is made of.
MaxPhrases == 2

(***************************************************************************)
(* SQL text and statement trees                                            *)
(***************************************************************************)

\* The tables of the database; "secrets" is never offered in a slice.
Tables == { "users", "orders", "secrets" }

\* The schema slices the slicer returns in the model's runs.
Slices == { {}, {"users"}, {"users", "orders"} }

\* A LIMIT argument: {} when the node has none, {n} for LIMIT n.
NoLimit == {}

\* Statement kinds sqlglot's parse_one may return at the top level;
\* "ParseError" stands for text parse_one raises on.
SelectKinds == { "Select", "Subquery", "Union", "With" }
BLOCK_KINDS ==
    { "Insert", "Update", "Delete", "Create", "Drop", "Alter", "Truncate",
      "Merge" }
OtherKinds == { "Command" }

\* The tokens the validators look for in sql.lower().
TokenSets == { {}, {"count("}, {"distinct"}, {"avg(", "group by"} }

\* The shapes of SELECT-derived statements: the top-level node's kind and
\* LIMIT, and the kind and LIMIT of the statement nested in it: the node a
\* Subquery wraps, or the statement of a CTE of a Select's WITH clause
\* (WITH d AS (DELETE FROM users RETURNING *) SELECT * FROM d parses to a
\* Select whose CTE holds a Delete).
Shapes ==
    { [kind |-> "Select",   limit |-> NoLimit, innerKind |-> "None",   innerLimit |-> NoLimit],
      [kind |-> "Select",   limit |-> NoLimit, innerKind |-> "Delete", innerLimit |-> NoLimit],
      [kind |-> "Select",   limit |-> {10},    innerKind |-> "None",   innerLimit |-> NoLimit],
      [kind |-> "Union",    limit |-> NoLimit, innerKind |-> "None",   innerLimit |-> NoLimit],
      [kind |-> "Union",    limit |-> {10},    innerKind |-> "None",   innerLimit |-> NoLimit],
      [kind |-> "With",     limit |-> NoLimit, innerKind |-> "None",   innerLimit |-> NoLimit],
      [kind |-> "Subquery", limit |-> NoLimit, innerKind |-> "Select", innerLimit |-> NoLimit],
      [kind |-> "Subquery", limit |-> NoLimit, innerKind |-> "Select", innerLimit |-> {10}],
      [kind |-> "Subquery", limit |-> NoLimit, innerKind |-> "Union",  innerLimit |-> NoLimit] }

MkSql(shape, tables, tokens) ==
    [kind |-> shape.kind, limit |-> shape.limit, innerKind |-> shape.innerKind,
     innerLimit |-> shape.innerLimit, tables |-> tables, tokens |-> tokens]

NoSql == MkSql([kind |-> "None", limit |-> NoLimit, innerKind |-> "None",
                innerLimit |-> NoLimit], {}, {})

\* The candidates a generator (language model or trained model) may return.
Candidates ==
    { MkSql(s, tb, tk) : s \in Shapes,
                         tb \in { {"users"}, {"users", "orders"}, {"secrets"} },
                         tk \in TokenSets }
    \cup
    { MkSql([kind |-> k, limit |-> NoLimit, innerKind |-> "None",
             innerLimit |-> NoLimit], {"users"}, tk) :
        k \in { "Drop", "Insert", "Command", "ParseError" },
        tk \in { {}, {"count("} } }


(***************************************************************************)
(* Validation and safety (app/ai/nl2sql.py)                                *)
(***************************************************************************)

\* The messages of the SQLSafetyError the validators raise; Ok when none.
Ok == "ok"
ErrAvg == "Question asks for average/mean but SQL doesn't include AVG()."
ErrCount == "Question asks for count but SQL doesn't include COUNT()."
ErrSum == "Question asks for sum/total but SQL doesn't include SUM()."
ErrGroup == "Question asks for grouping but SQL doesn't include GROUP BY or window functions."
ErrJoin == "Question mentions multiple tables but SQL doesn't use JOIN."
ErrDistinct == "Question asks for unique/distinct values but SQL doesn't include DISTINCT."
ErrParse == "SQL parse error"
ErrBlocked == "Only SELECT statements are allowed."
ErrNotSelect == "Statement must be a SELECT."
ErrTable == "Table not allowed in context"

\* The first error of a sequence of checks, as the first raise of a sequence
\* of statements.
FirstError(checks) ==
    IF \E i \in 1..Len(checks) : checks[i] # Ok
    THEN checks[CHOOSE i \in 1..Len(checks) :
                   /\ checks[i] # Ok
                   /\ \A j \in 1..(i - 1) : checks[j] = Ok]
    ELSE Ok

\* A variant that only knows the keywords of averages.
_detect_aggregation_needed_short(q) ==
    Mentions(q, { "average", "avg", "mean" })

_detect_aggregation_needed(q) ==
    Mentions(q, { "average", "avg", "mean", "count", "how many", "number of",
                  "sum", "total", "max", "maximum", "min", "minimum",
                  "grouped by", "group by", "per", "for each",
                  "aggregate", "aggregation",
                  "along with the average", "along with the", "with the average",
                  "compared to", "compared with", "same as the average" })

_validate_aggregation_requirements(q, sql) ==
    LET needs_avg == Mentions(q, {"average", "avg", "mean", "along with the average"})
        needs_count == Mentions(q, {"count", "how many", "number of"})
        needs_sum == Mentions(q, {"sum", "total"})
        needs_group_by == Mentions(q, {"grouped by", "group by", "per", "for each"})
        has_avg == "avg(" \in sql.tokens \/ "average(" \in sql.tokens
        has_count == "count(" \in sql.tokens
        has_sum == "sum(" \in sql.tokens
        has_group_by == "group by" \in sql.tokens
        has_window == "over (" \in sql.tokens \/ "partition by" \in sql.tokens
    IN  IF ~_detect_aggregation_needed(q) THEN Ok
        ELSE FirstError(<<
                 IF needs_avg /\ ~has_avg THEN ErrAvg ELSE Ok,
                 IF needs_count /\ ~has_count THEN ErrCount ELSE Ok,
                 IF needs_sum /\ ~has_sum THEN ErrSum ELSE Ok,
                 IF needs_group_by /\ ~(has_group_by \/ has_window) THEN ErrGroup ELSE Ok >>)

\* The text of a SELECT-derived statement that reads a table holds "from";
\* a slice table the statement reads is found by the scan for its name.
_validate_query_structure(q, sql, schema_context) ==
    LET has_join == "join" \in sql.tokens
        table_refs == Cardinality(sql.tables \cap schema_context)
        has_from == sql.kind \in SelectKinds /\ sql.tables # {}
        join_missing ==
            /\ Cardinality(schema_context) >= 2
            /\ Mentions(q, {"and their", "with their", "together", "and", "join"})
            /\ table_refs >= 2 /\ ~has_join
            /\ has_from /\ "from," \notin sql.tokens
        has_distinct_keywords ==
            Mentions(q, {"unique", "distinct", "no duplicates", "different values"})
        has_distinct == "distinct" \in sql.tokens
    IN  FirstError(<<
            IF join_missing THEN ErrJoin ELSE Ok,
            IF has_distinct_keywords /\ ~has_distinct THEN ErrDistinct ELSE Ok >>)

\* A variant with the block list but without the final isinstance test.
ensure_select_only_blocklist_only(sql) ==
    IF sql.kind = "ParseError" THEN ErrParse
    ELSE IF sql.kind \in BLOCK_KINDS THEN ErrBlocked
    ELSE Ok

\* A variant with the final isinstance test but without the block list.
ensure_select_only_isinstance_only(sql) ==
    IF sql.kind = "ParseError" THEN ErrParse
    ELSE IF sql.kind \notin {"Select", "Subquery", "Union", "With"} THEN ErrNotSelect
    ELSE Ok

ensure_select_only(sql) ==
    IF sql.kind = "ParseError" THEN ErrParse
    ELSE IF sql.kind \in BLOCK_KINDS THEN ErrBlocked
    ELSE IF sql.kind \notin {"Select", "Subquery", "Union", "With"} THEN ErrNotSelect
    ELSE Ok

referenced_tables(expr) == expr.tables

ensure_tables_allowed(expr, allowed) ==
    IF \E t \in referenced_tables(expr) : t \notin allowed THEN ErrTable ELSE Ok

enforce_limit(expr, max_rows) ==
    IF expr.kind = "Subquery"
    THEN IF expr.innerKind = "Select" /\ expr.innerLimit = NoLimit
         THEN [expr EXCEPT !.innerLimit = {max_rows}]
         ELSE expr
    ELSE IF expr.kind = "Select" /\ expr.limit = NoLimit
         THEN [expr EXCEPT !.limit = {max_rows}]
         ELSE expr

\* The rendered text of a tree: the same statement, as text.
finalize_sql(expr) == expr

(***************************************************************************)
(* Intent analysis (app/ai/query_intent.py)                                *)
(***************************************************************************)

When(cond, x) == IF cond THEN <<x>> ELSE <<>>

Range(seq) == { seq[i] : i \in DOMAIN seq }

\* list(schema_context.keys()) of a slice given as the set of its tables.
Keys(tables) ==
    SelectSeq(<< "users", "orders", "items", "secrets" >>, LAMBDA t : t \in tables)

\* The aggregation family detected: the first of avg, count, sum, max, min
\* one of whose keywords the question holds; "" when none.
detected_agg(q) ==
    IF Mentions(q, {"average", "avg", "mean", "mean age", "mean price"}) THEN "AVG"
    ELSE IF Mentions(q, {"count", "how many", "number of", "total number", "quantity"}) THEN "COUNT"
    ELSE IF Mentions(q, {"sum", "total", "total amount", "total price", "total sales"}) THEN "SUM"
    ELSE IF Mentions(q, {"max", "maximum", "highest", "largest", "most", "top"}) THEN "MAX"
    ELSE IF Mentions(q, {"min", "minimum", "lowest", "smallest", "least", "bottom"}) THEN "MIN"
    ELSE ""

needs_group_by(q) ==
    Mentions(q, { "grouped by", "group by", "per", "for each", "by company",
                  "by category", "by month", "by year", "by department",
                  "by type", "by status" })

needs_window(q) ==
    Mentions(q, { "along with", "with their", "with the average", "with the total",
                  "compared to", "compared with", "same as the average",
                  "alongside", "including the", "plus the average" })

needs_join(q, schema_context) ==
    IF schema_context # {}
    THEN Cardinality({ t \in schema_context : Mentions(q, {t}) }) >= 2
    ELSE Mentions(q, {"and their", "with their", "together"})

has_filters(q) ==
    \/ Mentions(q, { "where", "with", "that have", "that are", "which", "whose",
                     "greater than", "less than", "equal to", "not equal",
                     "above", "below", "over", "under", "between", "in range" })
    \/ Mentions(q, {"greater", "less", "equal", "not"})

needs_complex_filter(q) ==
    /\ has_filters(q)
    /\ Cardinality({ kw \in { "and", "or", "both", "either", "neither", "not only",
                              "but also", "as well as", "in addition to" } :
                       Mentions(q, {kw}) }) >= 2

needs_sort(q) ==
    Mentions(q, { "sorted by", "ordered by", "order by", "sort by",
                  "ascending", "descending", "asc", "desc",
                  "newest", "oldest", "latest", "earliest", "first", "last",
                  "top", "bottom", "highest", "lowest" })

needs_limit(q) ==
    Mentions(q, { "first", "last", "top", "bottom", "limit", "only",
                  "first 10", "top 5", "last 20", "first few", "only show" })

needs_date(q) ==
    Mentions(q, { "today", "yesterday", "tomorrow", "this week", "this month",
                  "this year", "last week", "last month", "last year",
                  "next week", "next month", "recent", "recently", "latest",
                  "oldest", "date", "time", "when", "from", "to", "between",
                  "after", "before", "since", "until" })

needs_text_search(q) ==
    Mentions(q, { "containing", "contains", "like", "matching", "starts with",
                  "ends with", "includes", "including", "search", "find",
                  "look for" })

needs_comparison(q) ==
    Mentions(q, { "compare", "comparison", "versus", "vs", "difference",
                  "different", "same", "similar", "equal", "greater than",
                  "less than" })

needs_ranking(q) ==
    Mentions(q, { "rank", "ranking", "ranked", "position", "nth", "first place",
                  "second place", "top performer", "best", "worst" })

needs_distinct(q) ==
    Mentions(q, { "unique", "distinct", "different", "unique values",
                  "no duplicates", "only show unique", "list all unique" })

needs_null_check(q) ==
    Mentions(q, { "null", "empty", "missing", "not set", "no value", "blank",
                  "is null", "is not null", "has no", "without" })

\* The table names and the words "or" of a question, in their order.
QuestionWords(q) ==
    LET RECURSIVE From(_)
        From(i) ==
            IF i > Len(PhraseOrder) THEN <<>>
            ELSE (IF PhraseOrder[i] \in q THEN Words(PhraseOrder[i]) ELSE <<>>)
                 \o From(i + 1)
    IN  From(1)

\* re.search(rf'\b{table1}\b.*\bor\b.*\b{table2}\b', question_lower)
OrBetween(words, table1, table2) ==
    \E a, b, c \in DOMAIN words :
        /\ a < b /\ b < c
        /\ words[a] = table1 /\ words[b] = "or" /\ words[c] = table2

\* How many times the loops over the pairs of tables append UNION: once for
\* every table that has a later table with "or" between them (the break
\* leaves the inner loop only).
union_appends(q, table_names) ==
    IF Mentions(q, {"or"}) /\ table_names # <<>>
    THEN Cardinality({ i \in DOMAIN table_names :
             \E j \in DOMAIN table_names :
                 j > i /\ OrBetween(QuestionWords(q), table_names[i], table_names[j]) })
    ELSE 0

Times(n, x) == [i \in 1..n |-> x]

\* A variant that takes the first detected intent whatever its priority.
primary_intent_first(intents) ==
    IF intents = <<>> THEN "SIMPLE_SELECT" ELSE intents[1]

priority_order ==
    << "WINDOW_FUNCTION", "GROUPED_AGGREGATION", "AGGREGATION", "JOIN", "RANKING",
       "COMPLEX_FILTER", "FILTERED", "SORTED", "LIMITED" >>

\* The first of priority_order among the intents; intents[0] when none of
\* them is there; SIMPLE_SELECT when there are no intents.
primary_intent(intents) ==
    IF intents = <<>> THEN "SIMPLE_SELECT"
    ELSE LET found == { i \in DOMAIN priority_order :
                          priority_order[i] \in Range(intents) }
         IN  IF found = {} THEN intents[1]
             ELSE priority_order[CHOOSE i \in found : \A j \in found : i <= j]

\* The confidence in hundredths: 0.8, or min(0.95, 0.7 + len(intents) * 0.05).
confidence(intents) ==
    IF intents = <<>> THEN 80
    ELSE IF 70 + Len(intents) * 5 < 95 THEN 70 + Len(intents) * 5 ELSE 95

needs_subquery(q) ==
    /\ Mentions(q, { "that have", "which have", "whose", "where there exists",
                     "that are in", "that are not in", "in the list of" })
    /\ has_filters(q)

\* The lists analyze_query_intent builds, each detector appending in turn.
detected_intents(q, schema_context) ==
       When(detected_agg(q) # "", "AGGREGATION")
    \o When(needs_group_by(q), "GROUPED_AGGREGATION")
    \o When(needs_window(q) /\ detected_agg(q) # "", "WINDOW_FUNCTION")
    \o When(needs_join(q, Range(schema_context)), "JOIN")
    \o When(has_filters(q), "FILTERED")
    \o When(needs_complex_filter(q), "COMPLEX_FILTER")
    \o When(needs_sort(q), "SORTED")
    \o When(needs_limit(q), "LIMITED")
    \o When(needs_date(q), "DATE_TIME")
    \o When(needs_text_search(q), "TEXT_SEARCH")
    \o When(needs_comparison(q), "COMPARISON")
    \o When(needs_ranking(q), "RANKING")
    \o When(needs_distinct(q), "DISTINCT")
    \o When(needs_null_check(q), "NULL_HANDLING")
    \o Times(union_appends(q, schema_context), "UNION")
    \o When(needs_subquery(q), "SUBQUERY")

\* The analysis of a question against a slice, schema_context being the
\* slice's tables in the order of its keys.
analyze_query_intent(q, schema_context) ==
    [ intents |-> detected_intents(q, schema_context),
      intent |-> primary_intent(detected_intents(q, schema_context)),
      confidence |-> confidence(detected_intents(q, schema_context)),
      required_clauses |->
           When(needs_group_by(q), "GROUP BY")
        \o When(needs_join(q, Range(schema_context)), "JOIN")
        \o When(has_filters(q), "WHERE")
        \o When(needs_sort(q), "ORDER BY")
        \o When(needs_date(q), "WHERE")
        \o When(needs_null_check(q), "WHERE"),
      required_functions |->
           When(detected_agg(q) # "", detected_agg(q))
        \o When(needs_window(q) /\ detected_agg(q) # "", "OVER (PARTITION BY ...)")
        \o When(needs_text_search(q), "LIKE or ILIKE")
        \o When(needs_ranking(q), "ROW_NUMBER() or RANK()")
        \o When(needs_distinct(q), "DISTINCT")
        \o Times(union_appends(q, schema_context), "UNION") ]

(***************************************************************************)
(* The request handler ai_ask (app/routes_ai.py)                           *)
(***************************************************************************)

\* The row caps of the requests: int(payload.get("limit") or 100).
Caps == { 5, 500 }

\* The plan gate's ceiling on the estimated row count.
PlanCeiling == 100000

\* The text EXPLAIN returns, as the estimates of its "rows=N" occurrences in
\* the order they occur; <<>> is text without an estimate, and the "" that
\* explain returns when the statement fails.
PlanTexts == { <<>>, <<50>>, <<250000>>, <<50, 250000>> }

VARIABLES
    payloadKind,    \* "ok", or what is wrong with the request body
    backend,        \* "sql" or "mongo": is_mongodb_url(connection url)
    question,       \* payload["question"], as the phrases it holds
    limit,          \* the caller's row cap
    use_trained,    \* payload["use_trained_model"]
    slice,          \* what the slicer returns for (schema, question)
    pc,             \* the handler's position
    strategy,       \* "none", "trained", "llm" or "mongo"
    draft,          \* the candidate of the strategy being run
    sql_final,      \* the finalized query of the strategy being run
    plan,           \* the plan text of the strategy being run
    connNext,       \* how many connections eng.connect() has handed out
    openConns,      \* the connections that are open
    conn_explain,   \* the connection of the plan step (0: none)
    conn_exec,      \* the connection of the execute step (0: none)
    explained,      \* the text explain was called with (NoSql: not called)
    executed,       \* the text execute_readonly was called with
    trainedError,   \* why the trained-model strategy was abandoned
    gateTripped,    \* the strategies whose plan exceeded the ceiling
    response,       \* what the handler answers
    analysis,       \* the intent analysis the LLM strategy's ask_llm built
    mongo_draft,    \* the document query the language model returned
    query_dict,     \* the document query of the request
    storeOps,       \* the aggregate/find operations run on the store
    log,            \* the chat_complete calls and the steps of the request
    schema,         \* the full schema the slicer is given, in its order
    ratio,          \* fuzz.partial_ratio(name, question), by name
    k_tables,       \* k_tables / k_collections
    sliced,         \* the slice the slicer returned, in its order
    sliced_again,   \* the slice a second run on the same arguments returned
    model_output,   \* the text chat_complete returned, line by line
    extracted,      \* what _extract_sql_from_response made of it
    fetched,        \* a row as the driver returned it
    normalized,     \* the row as the execution returns it
    _training_progress, \* the entry of the schema in the progress store
    request,        \* where each /train request stands
    task            \* where the background task of each request stands

vars ==
    << payloadKind, backend, question, limit, use_trained, slice, pc, strategy,
       draft, sql_final, plan, connNext, openConns, conn_explain, conn_exec,
       explained, executed, trainedError, gateTripped, response, analysis,
       mongo_draft, query_dict, storeOps, log,
       schema, ratio, k_tables, sliced, sliced_again, model_output, extracted,
       fetched, normalized, _training_progress, request, task >>

inputs == << payloadKind, backend, question, limit, use_trained, slice >>
sqlVars == << draft, sql_final, plan, explained, executed >>
connVars == << connNext, openConns, conn_explain, conn_exec >>
mongoVars == << mongo_draft, query_dict, storeOps >>
slicerVars == << schema, ratio, k_tables, sliced, sliced_again >>
extractVars == << model_output, extracted >>
normalizeVars == << fetched, normalized >>
trainVars == << _training_progress, request, task >>
otherVars == << normalizeVars, trainVars >>
kept == << inputs, analysis, slicerVars, extractVars, otherVars >>

NoResponse ==
    [kind |-> "none", ok |-> FALSE, error |-> "", message |-> "",
     sql |-> NoSql, method |-> ""]

\* A variant whose body never carries the query.
ErrorBodyWithoutSql(error, message, sql, method) ==
    [kind |-> "return", ok |-> FALSE, error |-> error, message |-> message,
     sql |-> NoSql, method |-> method]

\* A returned error body: ok False, empty columns and rows, rowcount 0.
ErrorBody(error, message, sql, method) ==
    [kind |-> "return", ok |-> FALSE, error |-> error, message |-> message,
     sql |-> sql, method |-> method]

\* An exception that leaves ai_ask: an HTTPException or any other.
Raised(error, message) ==
    [kind |-> "raise", ok |-> FALSE, error |-> error, message |-> message,
     sql |-> NoSql, method |-> ""]

OkBody(sql, method) ==
    [kind |-> "return", ok |-> TRUE, error |-> "", message |-> "",
     sql |-> sql, method |-> method]

(***************************************************************************)
(* The language-model client (app/ai/llm.py)                               *)
(***************************************************************************)

\* What happens to one call of chat_complete: it answers, or the settings
\* hold no base URL or model, or the configured endpoint fails.
Upstream == { "timeout", "connect", "http_status" }
Causes == { "ok", "not_configured" } \cup Upstream

NoException == [type |-> "", text |-> ""]

\* The exception chat_complete raises, by what happened to the call.
chat_complete(cause) ==
    CASE cause = "ok" -> NoException
      [] cause = "not_configured" ->
            [type |-> "LLMNotConfigured",
             text |-> "LLM not configured. Set LLM_BASE_URL and LLM_MODEL in .env"]
      [] cause = "timeout" ->
            [type |-> "LLMNotConfigured", text |-> "LLM request timed out"]
      [] cause = "connect" ->
            [type |-> "LLMNotConfigured", text |-> "Could not connect to LLM service"]
      [] cause = "http_status" ->
            [type |-> "LLMNotConfigured", text |-> "LLM service returned error"]

\* The entries of the log: a call of chat_complete, by its caller and by
\* what happened to it, and a step of the handler.
Call(by, cause) ==
    [what |-> "chat_complete", by |-> by, cause |-> cause,
     raised |-> chat_complete(cause).type]

Step(what, by) == [what |-> what, by |-> by, cause |-> "", raised |-> ""]

Fallback == Step("fallback", "trained")

(***************************************************************************)
(* Document queries (app/ai/nl2mongo.py)                                   *)
(***************************************************************************)

\* The limit query_dict.get("limit", 100) falls back to.
DefaultLimit == 100

Stage(op, n) == [op |-> op, n |-> n]

\* The pipelines of the candidates: without and with a $limit stage.
Pipelines ==
    { <<Stage("$match", 0)>>, <<Stage("$match", 0), Stage("$limit", 1000)>> }

\* A key of the query object is a set: {} when the key is absent, {v} when
\* it is present with value v.
Absent == {}

MongoCandidates ==
    [ collection : { Absent, {"users"}, {"secrets"} },
      pipeline : { Absent } \cup { {p} : p \in Pipelines },
      find : { Absent, {"filter"} },
      limit : { Absent, {0}, {10}, {1000} } ]

NoQuery ==
    [collection |-> Absent, pipeline |-> Absent, find |-> Absent, limit |-> Absent]

Value(key) == CHOOSE v \in key : TRUE

\* dict.get(key, default)
Get(key, default) == IF key = Absent THEN default ELSE Value(key)

Min(a, b) == IF a <= b THEN a ELSE b

\* query_dict["limit"] = min(limit, query_dict.get("limit", 100))
SetLimit(qd, cap) ==
    [qd EXCEPT !.limit = { Min(cap, Get(qd.limit, DefaultLimit)) }]

has_limit(pipeline) ==
    \E i \in 1..Len(pipeline) : pipeline[i].op = "$limit"

\* What execute_mongodb_query does with query_dict up to the store call:
\* the error it raises, or the operation it runs and query_dict after it
\* (pipeline.append changes the pipeline of query_dict itself).
execute_mongodb_query(qd) ==
    IF qd.collection = Absent
    THEN [error |-> "Query must specify a collection", op |-> "none", qd |-> qd]
    ELSE IF qd.pipeline # Absent
    THEN LET pipeline == Value(qd.pipeline)
             run == IF has_limit(pipeline) THEN pipeline
                    ELSE Append(pipeline, Stage("$limit", Get(qd.limit, DefaultLimit)))
         IN  [error |-> Ok, op |-> "aggregate", qd |-> [qd EXCEPT !.pipeline = {run}]]
    ELSE IF qd.find # Absent
    THEN [error |-> Ok, op |-> "find", qd |-> qd]
    ELSE [error |-> "Query must have either 'pipeline' or 'find'", op |-> "none", qd |-> qd]

\* An operation run on the store: collection.aggregate(pipeline), or
\* collection.find(filter).limit(limit).
StoreOp(op, qd) ==
    [op |-> op, collection |-> Value(qd.collection),
     pipeline |-> IF op = "aggregate" THEN Value(qd.pipeline) ELSE <<>>,
     limit |-> IF op = "find" THEN Get(qd.limit, DefaultLimit) ELSE 0]

(***************************************************************************)
(* ai_ask, step by step                                                    *)
(***************************************************************************)

\* The handler's runs leave the slicer's and the extractor's own variables
\* alone.
NotSlicing ==
    /\ schema = <<>> /\ ratio = <<>> /\ k_tables = 0
    /\ sliced = <<>> /\ sliced_again = <<>>

NotExtracting == model_output = <<>> /\ extracted = <<>>

NotNormalizing == fetched = <<>> /\ normalized = <<>>

\* The /train requests of a run, all for one schema.
MaxRequests == 2
Requests == 1..MaxRequests

\* _training_progress.get(schema_id) of a schema never trained.
NoProgress == [status |-> "none", stages |-> {}]

NotTraining ==
    /\ _training_progress = NoProgress
    /\ request = [r \in Requests |-> "idle"]
    /\ task = [r \in Requests |-> "none"]

Elsewhere == NotNormalizing /\ NotTraining

NoAnalysis ==
    [intents |-> <<>>, intent |-> "", confidence |-> 0,
     required_clauses |-> <<>>, required_functions |-> <<>>]

Init ==
    /\ payloadKind \in {"ok", "no_question", "no_connection", "invalid"}
    /\ backend \in {"sql", "mongo"}
    /\ question \in Questions
    /\ limit \in Caps
    /\ use_trained \in BOOLEAN
    /\ slice \in Slices
    /\ payloadKind # "ok" =>
          /\ backend = "sql" /\ question = {} /\ limit = 5
          /\ use_trained /\ slice = {}
    /\ backend = "mongo" => use_trained
    /\ pc = "start"
    /\ strategy = "none"
    /\ draft = NoSql /\ sql_final = NoSql /\ plan = <<>>
    /\ explained = NoSql /\ executed = NoSql
    /\ connNext = 0 /\ openConns = {} /\ conn_explain = 0 /\ conn_exec = 0
    /\ trainedError = Ok
    /\ gateTripped = {}
    /\ response = NoResponse
    /\ analysis = NoAnalysis
    /\ mongo_draft = NoQuery
    /\ query_dict = NoQuery
    /\ storeOps = <<>>
    /\ log = <<>>
    /\ Elsewhere
    /\ NotSlicing
    /\ NotExtracting

Answer(r) == pc' = "done" /\ response' = r

Logged(entries) == log' = log \o entries

\* A variant that leaves the connection open.
CloseLeak(conns, c) == conns

\* The with block of a connection is left: the connection is closed.
Close(conns, c) == conns \ {c}

\* Lines 111-170: the body is read, the backend chosen, the engine made.
Start ==
    /\ pc = "start"
    /\ UNCHANGED << kept, sqlVars, connVars, trainedError, gateTripped, mongoVars, log >>
    /\ \/ /\ payloadKind = "no_question"
          /\ Answer(ErrorBody("Missing question", "", NoSql, ""))
          /\ UNCHANGED strategy
       \/ /\ payloadKind = "no_connection"
          /\ Answer(ErrorBody("Missing connection", "", NoSql, ""))
          /\ UNCHANGED strategy
       \/ /\ payloadKind = "invalid"
          /\ Answer(ErrorBody("Invalid request", "", NoSql, ""))
          /\ UNCHANGED strategy
       \/ /\ payloadKind = "ok" /\ backend = "mongo"
          /\ pc' = "mongo_schema" /\ strategy' = "mongo"
          /\ UNCHANGED response
       \/ /\ payloadKind = "ok" /\ backend = "sql"
          /\ \/ /\ Answer(ErrorBody("Connection failed", "", NoSql, ""))
                /\ UNCHANGED strategy
             \/ /\ use_trained
                /\ pc' = "trained_load" /\ strategy' = "trained"
                /\ UNCHANGED response
             \/ /\ ~use_trained
                /\ pc' = "llm_generate" /\ strategy' = "llm"
                /\ UNCHANGED response

\* The except clauses of lines 221-226: the trained-model strategy is
\* abandoned and the handler goes on with the LLM strategy.
FallThrough(why) ==
    /\ pc' = "llm_generate"
    /\ strategy' = "llm"
    /\ trainedError' = why
    /\ draft' = NoSql /\ sql_final' = NoSql /\ plan' = <<>>
    /\ explained' = NoSql /\ executed' = NoSql
    /\ conn_explain' = 0 /\ conn_exec' = 0
    /\ UNCHANGED << kept, response, mongoVars >>

\* Lines 176-180: the schema is crawled and the model of the schema loaded.
TrainedLoad ==
    /\ pc = "trained_load"
    /\ \/ /\ FallThrough("Trained model failed")
          /\ Logged(<< Fallback >>)
          /\ UNCHANGED << connNext, openConns, gateTripped >>
       \/ /\ FallThrough(Ok)                  \* no model of this schema
          /\ Logged(<< Fallback >>)
          /\ UNCHANGED << connNext, openConns, gateTripped >>
       \/ /\ pc' = "trained_generate"
          /\ UNCHANGED << kept, strategy, sqlVars, connVars, trainedError,
                          gateTripped, response, mongoVars, log >>

\* Lines 187-191.
TrainedValidate(q, sql, cap) ==
    LET final == finalize_sql(enforce_limit(sql, cap))
    IN  [ error |-> FirstError(<< _validate_aggregation_requirements(q, sql),
                                  ensure_select_only(sql),
                                  _validate_aggregation_requirements(q, final) >>),
          sql |-> final ]

\* SchemaQueryGenerator.generate_query (app/models/inference.py), by the
\* calls of chat_complete it makes and by how it ends.  It raises before
\* any call when the ML dependencies are missing; _generate_candidates
\* calls chat_complete and swallows its exception; with no candidate from
\* the answer and none from the templates, _llm_fallback calls ask_llm,
\* whose exception leaves generate_query.
generate_query ==
    { [calls |-> <<>>, ends |-> "raise"] }
    \cup { [calls |-> << Call("_generate_candidates", c) >>, ends |-> "query"] :
             c \in Causes }
    \cup { [calls |-> << Call("_generate_candidates", c), Call("_llm_fallback", "ok") >>,
            ends |-> "query"] : c \in Causes }
    \cup { [calls |-> << Call("_generate_candidates", c), Call("_llm_fallback", d) >>,
            ends |-> "raise"] : c \in Causes, d \in Causes \ {"ok"} }

\* Lines 182-191: the model generates a query, which is validated.
TrainedGenerate ==
    /\ pc = "trained_generate"
    /\ \E g \in generate_query :
          IF g.ends = "raise"
          THEN /\ FallThrough("Trained model failed")
               /\ Logged(g.calls \o << Fallback >>)
               /\ UNCHANGED << connNext, openConns, gateTripped >>
          ELSE \E c \in Candidates :
                  LET v == TrainedValidate(question, c, limit)
                  IN  IF v.error # Ok
                      THEN /\ FallThrough(v.error)
                           /\ Logged(g.calls \o << Fallback >>)
                           /\ UNCHANGED << connNext, openConns, gateTripped >>
                      ELSE /\ pc' = "trained_plan"
                           /\ draft' = c
                           /\ sql_final' = v.sql
                           /\ Logged(g.calls)
                           /\ UNCHANGED << kept, strategy, plan, explained, executed,
                                           connVars, trainedError, gateTripped,
                                           response, mongoVars >>

\* eng.connect(): a new connection, or an exception.
Connect(c) ==
    /\ c = connNext + 1
    /\ connNext' = c
    /\ openConns' = openConns \cup {c}

\* A gate that trips on any estimate of the plan text, not on the first.
PlanTooLargeAnywhere(p) == \E i \in 1..Len(p) : p[i] > PlanCeiling

\* m and int(m.group(1)) > 100_000, m the first "rows=N" of the plan.
PlanTooLarge(p) == Len(p) > 0 /\ p[1] > PlanCeiling

\* Line 194: the connection of the plan step.
TrainedPlanOpen ==
    /\ pc = "trained_plan"
    /\ \/ /\ FallThrough("Trained model failed")
          /\ Logged(<< Fallback >>)
          /\ UNCHANGED << connNext, openConns, gateTripped >>
       \/ \E c \in {connNext + 1} :
             /\ Connect(c)
             /\ conn_explain' = c
             /\ pc' = "trained_plan_run"
             /\ UNCHANGED << kept, strategy, sqlVars, conn_exec, trainedError,
                             gateTripped, response, mongoVars, log >>

\* Lines 195-199: explain and the plan gate, then the with block is left.
TrainedPlanRun ==
    /\ pc = "trained_plan_run"
    /\ \E p \in PlanTexts :
          IF PlanTooLarge(p)
          THEN /\ FallThrough("Plan too large")
               /\ Logged(<< Fallback >>)
               /\ gateTripped' = gateTripped \cup {"trained"}
               /\ openConns' = Close(openConns, conn_explain)
               /\ UNCHANGED connNext
          ELSE /\ plan' = p
               /\ explained' = sql_final
               /\ openConns' = Close(openConns, conn_explain)
               /\ pc' = "trained_exec"
               /\ UNCHANGED << kept, strategy, draft, sql_final, executed,
                               connNext, conn_explain, conn_exec, trainedError,
                               gateTripped, response, mongoVars, log >>

\* Line 203: the connection of the execute step.
TrainedExecOpen ==
    /\ pc = "trained_exec"
    /\ \/ /\ FallThrough("Trained model failed")
          /\ Logged(<< Fallback >>)
          /\ UNCHANGED << connNext, openConns, gateTripped >>
       \/ \E c \in {connNext + 1} :
             /\ Connect(c)
             /\ conn_exec' = c
             /\ pc' = "trained_exec_run"
             /\ UNCHANGED << kept, strategy, sqlVars, conn_explain, trainedError,
                             gateTripped, response, mongoVars, log >>

\* execute_readonly (app/ai/nl2sql.py), by the steps it logs: SET LOCAL
\* statement_timeout is tried and its exception swallowed, then the query
\* is issued, and the database runs it or rejects it.
execute_readonly(by) ==
    { << Step(t, by), Step(e, by) >> :
        t \in { "timeout_set", "timeout_not_set" },
        e \in { "execute_ok", "execute_failed" } }

\* Lines 204-220: execute_readonly; its exception is raised again and
\* caught by line 224.
TrainedExecRun ==
    /\ pc = "trained_exec_run"
    /\ \E run \in execute_readonly("trained") :
          \/ /\ run[2].what = "execute_failed"
             /\ FallThrough("Trained model failed")
             /\ Logged(run \o << Fallback >>)
             /\ openConns' = Close(openConns, conn_exec)
             /\ UNCHANGED << connNext, gateTripped >>
          \/ /\ run[2].what = "execute_ok"
             /\ executed' = sql_final
             /\ openConns' = Close(openConns, conn_exec)
             /\ Answer(OkBody(sql_final, "trained_model"))
             /\ Logged(run)
             /\ UNCHANGED << kept, strategy, draft, sql_final, plan, explained,
                             connNext, conn_explain, conn_exec, trainedError,
                             gateTripped, mongoVars >>

\* Lines 245-253.
LlmValidate(q, sql, allowed, cap) ==
    LET final == finalize_sql(enforce_limit(sql, cap))
    IN  [ error |-> FirstError(<< _validate_aggregation_requirements(q, sql),
                                  _validate_query_structure(q, sql, allowed),
                                  ensure_select_only(sql),
                                  ensure_tables_allowed(sql, allowed),
                                  _validate_aggregation_requirements(q, final),
                                  _validate_query_structure(q, final, allowed) >>),
          sql |-> final ]

\* Lines 229-275: the schema is loaded and sliced, the language model asked
\* and its answer validated.
LlmGenerate ==
    /\ pc = "llm_generate"
    /\ UNCHANGED << inputs, strategy, plan, explained, executed, connVars,
                    trainedError, gateTripped, mongoVars, slicerVars,
                    extractVars, otherVars >>
    /\ \/ /\ Answer(ErrorBody("Query generation failed", "", NoSql, ""))
          /\ Logged(<< Step("pipeline", "llm") >>)
          /\ UNCHANGED << draft, sql_final, analysis >>
       \/ /\ slice = {}
          /\ Answer(ErrorBody("No relevant tables found", "", NoSql, ""))
          /\ Logged(<< Step("pipeline", "llm"), Step("empty_slice", "llm") >>)
          /\ UNCHANGED << draft, sql_final, analysis >>
       \/ /\ slice # {}
          /\ analysis' = analyze_query_intent(question, Keys(slice))
          /\ \E cause \in Causes \ {"ok"} :
                /\ Answer(ErrorBody("Query generation failed",
                                    chat_complete(cause).text, NoSql, ""))
                /\ Logged(<< Step("pipeline", "llm"), Call("ask_llm", cause) >>)
          /\ UNCHANGED << draft, sql_final >>
       \/ /\ slice # {}
          /\ analysis' = analyze_query_intent(question, Keys(slice))
          /\ Logged(<< Step("pipeline", "llm"), Call("ask_llm", "ok") >>)
          /\ \E c \in Candidates :
                LET v == LlmValidate(question, c, slice, limit)
                IN  /\ draft' = c
                    /\ IF v.error # Ok
                       THEN /\ Answer(ErrorBody("Query validation failed", v.error,
                                                NoSql, ""))
                            /\ UNCHANGED sql_final
                       ELSE /\ sql_final' = v.sql
                            /\ pc' = "llm_plan"
                            /\ UNCHANGED response

\* Line 279: the connection of the plan step; its exception leaves ai_ask.
LlmPlanOpen ==
    /\ pc = "llm_plan"
    /\ UNCHANGED << kept, strategy, sqlVars, conn_exec, trainedError,
                    gateTripped, mongoVars, log >>
    /\ \/ /\ Answer(Raised("Internal Server Error", ""))
          /\ UNCHANGED << connNext, openConns, conn_explain >>
       \/ \E c \in {connNext + 1} :
             /\ Connect(c)
             /\ conn_explain' = c
             /\ pc' = "llm_plan_run"
             /\ UNCHANGED response

\* Lines 280-285: explain and the plan gate, then the with block is left.
LlmPlanRun ==
    /\ pc = "llm_plan_run"
    /\ UNCHANGED << kept, strategy, draft, sql_final, executed, connNext,
                    conn_explain, conn_exec, trainedError, mongoVars, log >>
    /\ explained' = sql_final
    /\ openConns' = Close(openConns, conn_explain)
    /\ \E p \in PlanTexts :
          /\ plan' = p
          /\ IF PlanTooLarge(p)
             THEN /\ gateTripped' = gateTripped \cup {"llm"}
                  /\ Answer(Raised("HTTP 400",
                                   "Plan too large; refine filters or narrow scope."))
             ELSE /\ pc' = "llm_exec"
                  /\ UNCHANGED << gateTripped, response >>

\* Line 289: the connection of the execute step, inside the try.
LlmExecOpen ==
    /\ pc = "llm_exec"
    /\ UNCHANGED << kept, strategy, sqlVars, conn_explain, trainedError,
                    gateTripped, mongoVars, log >>
    /\ \/ /\ Answer(ErrorBody("Query execution failed", "", sql_final, "llm"))
          /\ UNCHANGED << connNext, openConns, conn_exec >>
       \/ \E c \in {connNext + 1} :
             /\ Connect(c)
             /\ conn_exec' = c
             /\ pc' = "llm_exec_run"
             /\ UNCHANGED response

\* Lines 290-317: execute_readonly and the answer.
LlmExecRun ==
    /\ pc = "llm_exec_run"
    /\ UNCHANGED << kept, strategy, draft, sql_final, plan, explained, connNext,
                    conn_explain, conn_exec, trainedError, gateTripped, mongoVars >>
    /\ executed' = sql_final
    /\ openConns' = Close(openConns, conn_exec)
    /\ \E run \in execute_readonly("llm") :
          /\ Logged(run)
          /\ IF run[2].what = "execute_failed"
             THEN Answer(ErrorBody("Query execution failed", "", sql_final, "llm"))
             ELSE Answer(OkBody(sql_final, "llm"))

(***************************************************************************)
(* _handle_mongodb_query, step by step.  ai_ask calls it inside the try of  *)
(* lines 149-170, so every exception it raises is answered as a failed     *)
(* connection.                                                             *)
(***************************************************************************)

MongoFailed(detail) == Answer(ErrorBody("Connection failed", detail, NoSql, ""))

\* Lines 329-336: the schema is loaded and sliced.
MongoSchema ==
    /\ pc = "mongo_schema"
    /\ UNCHANGED << kept, strategy, sqlVars, connVars, trainedError,
                    gateTripped, mongoVars >>
    /\ \/ MongoFailed("Internal error") /\ UNCHANGED log
       \/ MongoFailed("No collections found in MongoDB database") /\ UNCHANGED log
       \/ /\ slice = {}
          /\ MongoFailed("No relevant collections/fields found")
          /\ Logged(<< Step("empty_slice", "mongo") >>)
       \/ /\ slice # {}
          /\ pc' = "mongo_generate"
          /\ UNCHANGED << response, log >>

\* Lines 339-360: the language model is asked, then the limit is set.
MongoGenerate ==
    /\ pc = "mongo_generate"
    /\ UNCHANGED << kept, strategy, sqlVars, connVars, trainedError,
                    gateTripped, storeOps >>
    /\ \/ \E cause \in Causes \ {"ok"} :
             /\ MongoFailed(chat_complete(cause).text)
             /\ Logged(<< Call("ask_llm_mongo", cause) >>)
             /\ UNCHANGED << mongo_draft, query_dict >>
       \/ /\ MongoFailed("Failed to generate MongoDB query")
          /\ Logged(<< Call("ask_llm_mongo", "ok") >>)
          /\ UNCHANGED << mongo_draft, query_dict >>
       \/ \E c \in MongoCandidates :
             /\ Logged(<< Call("ask_llm_mongo", "ok") >>)
             /\ mongo_draft' = c
             /\ query_dict' = SetLimit(c, limit)
             /\ pc' = "mongo_execute"
             /\ UNCHANGED response

\* Line 364: execute_mongodb_query.
MongoExecute ==
    /\ pc = "mongo_execute"
    /\ UNCHANGED << kept, strategy, sqlVars, connVars, trainedError, gateTripped, log >>
    /\ LET run == execute_mongodb_query(query_dict)
       IN  IF run.error # Ok
           THEN /\ MongoFailed("Query execution failed")
                /\ UNCHANGED mongoVars
           ELSE \/ /\ MongoFailed("Query execution failed")   \* no connection
                   /\ UNCHANGED mongoVars
                \/ /\ UNCHANGED mongo_draft
                   /\ query_dict' = run.qd
                   /\ storeOps' = Append(storeOps, StoreOp(run.op, run.qd))
                   /\ \/ MongoFailed("Query execution failed")   \* the store fails
                      \/ pc' = "mongo_explain" /\ UNCHANGED response

\* The explain command explain_mongodb_query sends for query_dict.
explain_mongodb_query(qd) ==
    [op |-> "explain", collection |-> Value(qd.collection),
     pipeline |-> IF qd.pipeline # Absent THEN Value(qd.pipeline) ELSE <<>>,
     limit |-> IF qd.pipeline # Absent THEN 0 ELSE Get(qd.limit, DefaultLimit)]

\* Lines 370-389: the explanation, asked for after the query has run; it
\* never fails the request, whether the command reaches the store or not.
MongoExplain ==
    /\ pc = "mongo_explain"
    /\ UNCHANGED << kept, strategy, sqlVars, connVars, trainedError,
                    gateTripped, mongo_draft, query_dict, log >>
    /\ \/ storeOps' = Append(storeOps, explain_mongodb_query(query_dict))
       \/ UNCHANGED storeOps
    /\ Answer(OkBody(NoSql, "llm_mongo"))

Next ==
    \/ Start
    \/ TrainedLoad
    \/ TrainedGenerate
    \/ TrainedPlanOpen
    \/ TrainedPlanRun
    \/ TrainedExecOpen
    \/ TrainedExecRun
    \/ LlmGenerate
    \/ LlmPlanOpen
    \/ LlmPlanRun
    \/ LlmExecOpen
    \/ LlmExecRun
    \/ MongoSchema
    \/ MongoGenerate
    \/ MongoExecute
    \/ MongoExplain

Spec == Init /\ [][Next]_vars

(***************************************************************************)
(* The validation of the LLM strategy on its own, over every question of   *)
(* at most MaxPhrases phrases: the handler taken up where the LLM strategy *)
(* starts.                                                                 *)
(***************************************************************************)

InitSoft ==
    /\ payloadKind = "ok"
    /\ backend = "sql"
    /\ question \in { q \in SUBSET Vocabulary : Cardinality(q) <= MaxPhrases }
    /\ limit \in Caps
    /\ use_trained = FALSE
    /\ slice \in Slices
    /\ pc = "llm_generate"
    /\ strategy = "llm"
    /\ draft = NoSql /\ sql_final = NoSql /\ plan = <<>>
    /\ explained = NoSql /\ executed = NoSql
    /\ connNext = 0 /\ openConns = {} /\ conn_explain = 0 /\ conn_exec = 0
    /\ trainedError = Ok
    /\ gateTripped = {}
    /\ response = NoResponse
    /\ analysis = NoAnalysis
    /\ mongo_draft = NoQuery
    /\ query_dict = NoQuery
    /\ storeOps = <<>>
    /\ log = <<>>
    /\ Elsewhere
    /\ NotSlicing
    /\ NotExtracting

NextSoft == LlmGenerate

SpecSoft == InitSoft /\ [][NextSoft]_vars

(***************************************************************************)
(* The schema slicer: select_relevant (app/ai/nl2sql.py) and               *)
(* select_relevant_mongo (app/ai/nl2mongo.py).  A schema is the sequence   *)
(* of its elements in the order of the dict, each with its fields in their *)
(* order; a slice is the same.  fuzz.partial_ratio is the library's: its   *)
(* scores are given, by name.                                              *)
(***************************************************************************)

\* The most names of a slicer run that the question scores 100.
MaxHot == 2

\* How many of the best-scoring fields of an element are kept.
TopFields == 8

Plain == << "c1", "c2", "c3", "c4", "c5", "c6", "c7", "c8" >>

\* f"{t}_id"
IdOf(t) ==
    CASE t = "users" -> "users_id"
      [] t = "orders" -> "orders_id"
      [] OTHER -> "element_id"

Element(name, cols) == [name |-> name, cols |-> cols]

\* The schemas of the slicer's runs: none, one and several elements, with
\* fewer and with more than TopFields fields, the identifier-like fields
\* first and last.
Schemas ==
    { <<>>,
      << Element("users", << "id", "name" >>) >>,
      << Element("users", Plain \o << "users_id", "_id", "id" >>),
         Element("orders", << "id", "name" >>) >>,
      << Element("users", << "_id", "id", "users_id" >> \o Plain),
         Element("orders", Plain \o << "name", "orders_id" >>),
         Element("items", Plain \o << "name" >>) >>,
      << Element("users", << "id", "name" >>),
         Element("orders", Plain \o << "_id" >>),
         Element("items", << "name" >>),
         Element("logs", Plain \o << "id" >>),
         Element("tags", << "_id", "name" >>) >> }

SlicerNames ==
    UNION { UNION { {el.name} \cup Range(el.cols) : el \in Range(sch) } : sch \in Schemas }

\* The score tables of the runs: 100 for the names the question holds, 60
\* for one that it nearly holds, 0 for the others.
Ratios ==
    { [n \in SlicerNames |-> IF n \in hot THEN 100 ELSE IF n \in warm THEN 60 ELSE 0] :
        hot \in { h \in SUBSET SlicerNames : Cardinality(h) <= MaxHot },
        warm \in { {}, {"orders"}, {"c8"}, {"id"} } }

MaxOf(S) == CHOOSE m \in S : \A x \in S : x <= m

\* max(partial_ratio(t), max((partial_ratio(c) ...), default=0))
element_score(el, r) ==
    MaxOf({ r[el.name] } \cup { r[c] : c \in Range(el.cols) } \cup { 0 })

\* A variant that puts equal scores in reverse order.
sort_desc_unstable(pairs) ==
    LET n == Len(pairs)
        place(i) == 1 + Cardinality({ j \in 1..n :
                         \/ pairs[j][2] > pairs[i][2]
                         \/ pairs[j][2] = pairs[i][2] /\ j > i })
    IN  [p \in 1..n |-> pairs[CHOOSE i \in 1..n : place(i) = p]]

\* list.sort(key=lambda x: x[1], reverse=True): by score, highest first;
\* the sort is stable, so equal scores keep their order.
sort_desc(pairs) ==
    LET n == Len(pairs)
        place(i) == 1 + Cardinality({ j \in 1..n :
                         \/ pairs[j][2] > pairs[i][2]
                         \/ pairs[j][2] = pairs[i][2] /\ j < i })
    IN  [p \in 1..n |-> pairs[CHOOSE i \in 1..n : place(i) = p]]

\* A variant that keeps the whole list.
TakeAll(seq, n) == seq

\* seq[:n], for a count n
Take(seq, n) == SubSeq(seq, 1, IF n < Len(seq) THEN n ELSE Len(seq))

Firsts(pairs) == [i \in DOMAIN pairs |-> pairs[i][1]]

\* The TopFields best-scoring fields of an element.
best_fields(cols, r) ==
    Firsts(Take(sort_desc([i \in DOMAIN cols |-> << cols[i], r[cols[i]] >>]),
                TopFields))

\* if fallback in cols and fallback not in best: best.append(fallback)
WithFallback(best, cols, fallback) ==
    IF fallback \in Range(cols) /\ fallback \notin Range(best)
    THEN Append(best, fallback)
    ELSE best

chosen_elements(sch, r, kt) ==
    Firsts(Take(sort_desc([i \in DOMAIN sch |-> << sch[i], element_score(sch[i], r) >>]),
                kt))

select_relevant(sch, r, kt) ==
    LET chosen == chosen_elements(sch, r, kt)
    IN  [i \in DOMAIN chosen |->
            [name |-> chosen[i].name,
             fields |-> WithFallback(
                            WithFallback(best_fields(chosen[i].cols, r),
                                         chosen[i].cols, "id"),
                            chosen[i].cols, IdOf(chosen[i].name))]]

select_relevant_mongo(sch, r, kt) ==
    LET chosen == chosen_elements(sch, r, kt)
    IN  [i \in DOMAIN chosen |->
            [name |-> chosen[i].name,
             fields |-> WithFallback(best_fields(chosen[i].cols, r),
                                     chosen[i].cols, "_id")]]

\* The slicer of the backend.
Slicer(sch, r, kt) ==
    IF backend = "mongo" THEN select_relevant_mongo(sch, r, kt)
    ELSE select_relevant(sch, r, kt)

InitSlicer ==
    /\ payloadKind = "ok"
    /\ backend \in {"sql", "mongo"}
    /\ question = {}
    /\ limit = 5
    /\ use_trained = FALSE
    /\ slice = {}
    /\ pc = "slice"
    /\ strategy = "none"
    /\ draft = NoSql /\ sql_final = NoSql /\ plan = <<>>
    /\ explained = NoSql /\ executed = NoSql
    /\ connNext = 0 /\ openConns = {} /\ conn_explain = 0 /\ conn_exec = 0
    /\ trainedError = Ok
    /\ gateTripped = {}
    /\ response = NoResponse
    /\ analysis = NoAnalysis
    /\ mongo_draft = NoQuery
    /\ query_dict = NoQuery
    /\ storeOps = <<>>
    /\ log = <<>>
    /\ Elsewhere
    /\ schema \in Schemas
    /\ ratio \in Ratios
    /\ k_tables \in {0, 1, 4}
    /\ sliced = <<>> /\ sliced_again = <<>>
    /\ NotExtracting

\* Everything of the handler that the pure functions leave alone.
handlerVars ==
    << payloadKind, backend, question, limit, use_trained, strategy, sqlVars,
       connVars, trainedError, gateTripped, response, mongoVars, log >>

SliceOnce ==
    /\ pc = "slice"
    /\ sliced' = Slicer(schema, ratio, k_tables)
    /\ slice' = { sliced'[i].name : i \in DOMAIN sliced' }
    /\ pc' = "slice_again"
    /\ UNCHANGED << handlerVars, analysis, schema, ratio, k_tables, sliced_again,
                    extractVars, otherVars >>

SliceAgain ==
    /\ pc = "slice_again"
    /\ sliced_again' = Slicer(schema, ratio, k_tables)
    /\ pc' = "sliced"
    /\ UNCHANGED << handlerVars, analysis, slice, schema, ratio, k_tables, sliced,
                    extractVars, otherVars >>

NextSlicer == SliceOnce \/ SliceAgain

SpecSlicer == InitSlicer /\ [][NextSlicer]_vars

(***************************************************************************)
(* Properties                                                              *)
(***************************************************************************)

\* explain is being called on sql_final over conn_explain.
Explaining == pc \in {"trained_plan_run", "llm_plan_run"}

\* execute_readonly is being called on sql_final over conn_exec.
Executing == pc \in {"trained_exec_run", "llm_exec_run"}

\* C1 (as claimed): every table of the SQL text passed to explain or to
\* execute_readonly is a key of the schema slice, in either strategy.
C1_AllowListClosure ==
    (Explaining \/ Executing) => referenced_tables(sql_final) \subseteq slice

\* C2: a candidate whose top-level kind is none of Select, Subquery, Union,
\* With is rejected by ensure_select_only with an SQLSafetyError, and neither
\* explain nor execute_readonly is ever called on it.
C2_ForbiddenKindNeverRuns ==
    /\ \A k \in BLOCK_KINDS \cup OtherKinds \cup {"ParseError"} :
          ensure_select_only([NoSql EXCEPT !.kind = k])
              \in {ErrParse, ErrBlocked, ErrNotSelect}
    /\ (Explaining \/ Executing) =>
          draft.kind \in SelectKinds /\ sql_final.kind \in SelectKinds
    /\ explained.kind \in SelectKinds \cup {"None"}
    /\ executed.kind \in SelectKinds \cup {"None"}
    /\ (draft # NoSql /\ draft.kind \notin SelectKinds) =>
          /\ pc = "done"
          /\ response.kind = "return" /\ ~response.ok
          /\ response.error = "Query validation failed"
          /\ explained = NoSql /\ executed = NoSql

C2_Witness ==
    /\ pc = "done" /\ strategy = "llm" /\ draft.kind = "Drop"
    /\ response.message = ErrBlocked

\* The LIMIT clauses of a statement, and the LIMIT of its (unwrapped)
\* top-level SELECT.
LimitClauses(sql) ==
    (IF sql.limit # NoLimit THEN 1 ELSE 0) + (IF sql.innerLimit # NoLimit THEN 1 ELSE 0)

TopLimit(sql) ==
    IF sql.kind = "Subquery" /\ sql.limit = NoLimit THEN sql.innerLimit ELSE sql.limit

\* C3 (as claimed): an accepted statement without a LIMIT is finalized with
\* exactly one LIMIT, at its top level, equal to the row cap; an explicit
\* LIMIT is left as it is.
C3_LimitEnforced ==
    sql_final # NoSql =>
        IF LimitClauses(draft) = 0
        THEN LimitClauses(sql_final) = 1 /\ TopLimit(sql_final) = {limit}
        ELSE sql_final.limit = draft.limit /\ sql_final.innerLimit = draft.innerLimit

\* C4 (as claimed): once a plan reports more than 100000 rows, in either
\* strategy, the request ends rejected with the capacity error and
\* without an execution.
C4_PlanGateRejectsRequest ==
    (gateTripped # {} /\ pc = "done") =>
        /\ response.kind = "raise"
        /\ response.message = "Plan too large; refine filters or narrow scope."
        /\ executed = NoSql

\* C5: execute_readonly runs on a finalized SQL only after explain ran on
\* the same SQL, over another connection, opened after the plan connection
\* was closed.
C5_PlanBeforeExecute ==
    /\ Explaining =>
          /\ conn_explain \in openConns
          /\ conn_exec = 0 /\ executed = NoSql
    /\ Executing =>
          /\ explained = sql_final
          /\ conn_explain # 0 /\ conn_exec # 0
          /\ conn_exec # conn_explain
          /\ conn_explain \notin openConns
          /\ conn_exec \in openConns
    /\ executed # NoSql =>
          /\ explained = executed
          /\ conn_explain # 0 /\ conn_exec > conn_explain

C5_Witness ==
    /\ pc = "done" /\ response.ok /\ response.method = "trained_model"
    /\ executed = sql_final /\ conn_explain = 1 /\ conn_exec = 2

\* C6 (as claimed): no aggregate or find runs on a collection that is not
\* a key of the slice.
C6_CollectionInSlice ==
    \A i \in 1..Len(storeOps) : storeOps[i].collection \in slice

\* C7 (as claimed): an aggregate or find runs only for a candidate with a
\* collection and exactly one of pipeline and find.
C7_ExactlyOneShape ==
    storeOps # <<>> =>
        /\ mongo_draft.collection # Absent
        /\ (mongo_draft.pipeline # Absent) # (mongo_draft.find # Absent)

\* C8 (as claimed): a pipeline without $limit gets one $limit appended, of
\* the caller's cap; a find runs with the caller's cap when the candidate
\* has no limit and with at most the cap otherwise: a positive limit, no
\* greater than the cap.
C8_LimitWithinCap ==
    \A i \in 1..Len(storeOps) :
        LET o == storeOps[i]
        IN  /\ (o.op = "aggregate" /\ ~has_limit(Value(mongo_draft.pipeline))) =>
                  o.pipeline = Append(Value(mongo_draft.pipeline), Stage("$limit", limit))
            /\ o.op = "find" =>
                  /\ o.limit > 0 /\ o.limit <= limit
                  /\ mongo_draft.limit = Absent => o.limit = limit

\* The constructs of soft validation, the token each is looked for by and
\* the message that names it.
Constructs == { "AVG", "COUNT", "SUM", "GROUP BY", "DISTINCT", "JOIN" }

TokenOf(x) ==
    CASE x = "AVG" -> "avg("
      [] x = "COUNT" -> "count("
      [] x = "SUM" -> "sum("
      [] x = "GROUP BY" -> "group by"
      [] x = "DISTINCT" -> "distinct"
      [] x = "JOIN" -> "join"

Naming(x) ==
    CASE x = "AVG" -> ErrAvg
      [] x = "COUNT" -> ErrCount
      [] x = "SUM" -> ErrSum
      [] x = "GROUP BY" -> ErrGroup
      [] x = "DISTINCT" -> ErrDistinct
      [] x = "JOIN" -> ErrJoin

Listed(a, x) ==
    \/ \E i \in 1..Len(a.required_functions) : a.required_functions[i] = x
    \/ \E i \in 1..Len(a.required_clauses) : a.required_clauses[i] = x

Rejected ==
    /\ pc = "done"
    /\ response.kind = "return" /\ ~response.ok
    /\ response.error = "Query validation failed"

MissingByKeywords(q, sql) ==
    { x \in Constructs :
        \/ /\ x = "AVG"
           /\ Mentions(q, {"average", "avg", "mean"})
           /\ sql.tokens \cap {"avg(", "average("} = {}
        \/ /\ x = "COUNT"
           /\ Mentions(q, {"count", "how many", "number of"})
           /\ "count(" \notin sql.tokens
        \/ /\ x = "SUM"
           /\ Mentions(q, {"sum", "total"})
           /\ "sum(" \notin sql.tokens
        \/ /\ x = "GROUP BY"
           /\ Mentions(q, {"grouped by", "group by", "per", "for each"})
           /\ sql.tokens \cap {"group by", "over (", "partition by"} = {}
        \/ /\ x = "DISTINCT"
           /\ Mentions(q, {"unique", "distinct", "no duplicates", "different values"})
           /\ "distinct" \notin sql.tokens }

LlmCalls == SelectSeq(log, LAMBDA e : e.what = "chat_complete")

Happened(what) == \E i \in 1..Len(log) : log[i].what = what

\* C11 (as claimed): a request whose slicer returned an empty slice fails
\* with a "no relevant schema" error (as its error category or its message)
\* and has made no call of chat_complete.
C11_EmptySliceTerminal ==
    Happened("empty_slice") =>
        /\ pc = "done"
        /\ response.kind = "return" /\ ~response.ok
        /\ { response.error, response.message }
              \cap { "No relevant tables found",
                     "No relevant collections/fields found" } # {}
        /\ LlmCalls = <<>>


(***************************************************************************)
(* The intent analysis on its own: analyze_query_intent over the questions *)
(* of at most MaxPhrases phrases and the slices of up to three tables.     *)
(***************************************************************************)

IntentSlices ==
    { <<>>,
      << [name |-> "users", fields |-> << "id" >>] >>,
      << [name |-> "users", fields |-> << "id" >>],
         [name |-> "orders", fields |-> << "id" >>] >>,
      << [name |-> "orders", fields |-> << "id" >>],
         [name |-> "users", fields |-> << "id" >>] >>,
      << [name |-> "users", fields |-> << "id" >>],
         [name |-> "orders", fields |-> << "id" >>],
         [name |-> "items", fields |-> << "id" >>] >>,
      << [name |-> "items", fields |-> << "id" >>],
         [name |-> "orders", fields |-> << "id" >>],
         [name |-> "users", fields |-> << "id" >>] >> }

InitIntent ==
    /\ payloadKind = "ok"
    /\ backend = "sql"
    /\ question \in { q \in SUBSET Range(PhraseOrder) : Cardinality(q) <= MaxPhrases }
    /\ limit = 5
    /\ use_trained = FALSE
    /\ sliced \in IntentSlices
    /\ slice = { sliced[i].name : i \in DOMAIN sliced }
    /\ pc = "analyze"
    /\ strategy = "none"
    /\ draft = NoSql /\ sql_final = NoSql /\ plan = <<>>
    /\ explained = NoSql /\ executed = NoSql
    /\ connNext = 0 /\ openConns = {} /\ conn_explain = 0 /\ conn_exec = 0
    /\ trainedError = Ok
    /\ gateTripped = {}
    /\ response = NoResponse
    /\ analysis = NoAnalysis
    /\ mongo_draft = NoQuery
    /\ query_dict = NoQuery
    /\ storeOps = <<>>
    /\ log = <<>>
    /\ Elsewhere
    /\ schema = <<>> /\ ratio = <<>> /\ k_tables = 0 /\ sliced_again = <<>>
    /\ NotExtracting

Analyze ==
    /\ pc = "analyze"
    /\ analysis' = analyze_query_intent(question, [i \in DOMAIN sliced |-> sliced[i].name])
    /\ pc' = "analyzed"
    /\ UNCHANGED << handlerVars, slice, slicerVars, extractVars, otherVars >>

SpecIntent == InitIntent /\ [][Analyze]_vars

(***************************************************************************)
(* Extraction of the SQL text from the model output:                       *)
(* _extract_sql_from_response (app/ai/nl2sql.py).  A text is the sequence  *)
(* of its lines, response.split("\n"); the extracted text is its lines and *)
(* the separator that joins them.                                          *)
(***************************************************************************)

\* The most lines of a model output.
MaxLines == 4

\* The lines of the model outputs; <fence> stands for the three backquotes
\* of a code fence.
Lines ==
    { "<fence>sql", "<fence>", "SELECT * FROM", "select 1;", "users", "Users",
      "  users;", "DELETE FROM users;", "" }

\* line.strip()
Strip(line) == IF line = "  users;" THEN "users;" ELSE line

\* line_stripped.upper().startswith("SELECT")
StartsSelect(line) == Strip(line) \in { "SELECT * FROM", "select 1;" }

\* A stripped line that is not empty, holds none of the keywords, begins
\* with a capital letter, not with "--", and holds no quote.
LooksProse(line) == Strip(line) = "Users"

\* line_stripped.endswith(";")
EndsSemicolon(line) == Strip(line) \in { "select 1;", "users;", "DELETE FROM users;" }

\* line.rstrip(";").strip()
Unsemicolon(line) ==
    CASE line = "select 1;" -> "select 1"
      [] line = "users;" -> "users"
      [] line = "DELETE FROM users;" -> "DELETE FROM users"
      [] OTHER -> line

\* text.strip() of a text given by its lines: the empty lines at both ends
\* go, and so does the white space before the first line that is left.
StripText(lines) ==
    LET full == { i \in DOMAIN lines : Strip(lines[i]) # "" }
        first == CHOOSE i \in full : \A j \in full : i <= j
        last == CHOOSE i \in full : \A j \in full : j <= i
    IN  IF full = {} THEN << "" >>
        ELSE << Strip(lines[first]) >> \o SubSeq(lines, first + 1, last)

\* A variant that leaves the fence lines in.
KeepFence(lines) == lines

\* The lines without the fence: when the text begins with a fence the first
\* line goes if there is more than one, then the last if it is a fence.
RemoveFence(lines) ==
    IF lines[1] \notin { "<fence>sql", "<fence>" } THEN lines
    ELSE LET rest == IF Len(lines) > 1 THEN Tail(lines) ELSE lines
             open == IF rest # <<>> /\ Strip(rest[Len(rest)]) = "<fence>"
                     THEN SubSeq(rest, 1, Len(rest) - 1) ELSE rest
         IN  IF open = <<>> THEN << "" >> ELSE open

\* The loop over the lines: sql_lines.
sql_lines(lines) ==
    LET RECURSIVE From(_, _)
        From(i, in_sql) ==
            IF i > Len(lines) THEN <<>>
            ELSE IF StartsSelect(lines[i])
                 THEN << Strip(lines[i]) >> \o From(i + 1, TRUE)
            ELSE IF ~in_sql THEN From(i + 1, FALSE)
            ELSE IF LooksProse(lines[i]) THEN <<>>
            ELSE << Strip(lines[i]) >>
                 \o (IF EndsSemicolon(lines[i]) THEN <<>> ELSE From(i + 1, TRUE))
    IN  From(1, FALSE)

\* " ".join(sql_lines).strip().rstrip(";").strip(), by lines.
JoinedSql(lines) ==
    LET joined == StripText(lines)
    IN  [sep |-> " ",
         lines |-> SubSeq(joined, 1, Len(joined) - 1)
                   \o << Unsemicolon(joined[Len(joined)]) >>]

_extract_sql_from_response(output) ==
    LET text == RemoveFence(StripText(output))
    IN  IF sql_lines(text) # <<>> THEN JoinedSql(sql_lines(text))
        ELSE [sep |-> "\n", lines |-> StripText(text)]

InitExtract ==
    /\ payloadKind = "ok"
    /\ backend = "sql"
    /\ question = {}
    /\ limit = 5
    /\ use_trained = FALSE
    /\ slice = {"users"}
    /\ pc = "extract"
    /\ strategy = "none"
    /\ draft = NoSql /\ sql_final = NoSql /\ plan = <<>>
    /\ explained = NoSql /\ executed = NoSql
    /\ connNext = 0 /\ openConns = {} /\ conn_explain = 0 /\ conn_exec = 0
    /\ trainedError = Ok
    /\ gateTripped = {}
    /\ response = NoResponse
    /\ analysis = NoAnalysis
    /\ mongo_draft = NoQuery
    /\ query_dict = NoQuery
    /\ storeOps = <<>>
    /\ log = <<>>
    /\ Elsewhere
    /\ NotSlicing
    /\ model_output \in UNION { [1..n -> Lines] : n \in 1..MaxLines }
    /\ extracted = <<>>

Extract ==
    /\ pc = "extract"
    /\ extracted' = _extract_sql_from_response(model_output)
    /\ pc' = "extracted"
    /\ UNCHANGED << handlerVars, slice, analysis, slicerVars, model_output,
                    otherVars >>

SpecExtract == InitExtract /\ [][Extract]_vars

(***************************************************************************)
(* The slicer's properties                                                 *)
(***************************************************************************)

Sliced == pc \in { "slice_again", "sliced" }

SchemaElement(name) == CHOOSE el \in Range(schema) : el.name = name

PosIn(seq, x) == CHOOSE i \in DOMAIN seq : seq[i] = x

\* Members of out with equal scores stand in the order they have in orig.
TieOrder(out, orig, score(_)) ==
    \A a, b \in DOMAIN out :
        a < b /\ score(out[a]) = score(out[b])
            => PosIn(orig, out[a]) < PosIn(orig, out[b])

field_score(f) == ratio[f]

name_score(n) == element_score(SchemaElement(n), ratio)

SlicedNames == [i \in DOMAIN sliced |-> sliced[i].name]

SchemaNames == [i \in DOMAIN schema |-> schema[i].name]

\* C12: the slice has at most k keys, each key is an element of the schema,
\* and each field listed under a key is a field of that element.
C12_SliceWellFormed ==
    Sliced =>
        /\ Len(sliced) <= k_tables
        /\ \A i, j \in DOMAIN sliced : sliced[i].name = sliced[j].name => i = j
        /\ \A i \in DOMAIN sliced :
               \E el \in Range(schema) :
                   /\ el.name = sliced[i].name
                   /\ Range(sliced[i].fields) \subseteq Range(el.cols)

\* A schema of more than k elements is cut to k of them, one of them with
\* more than TopFields fields in the slice.
C12_Witness ==
    /\ pc = "sliced"
    /\ k_tables > 0
    /\ Len(schema) > k_tables
    /\ Len(sliced) = k_tables
    /\ \E i \in DOMAIN sliced : Len(sliced[i].fields) > TopFields

\* C13 (as claimed): on both backends every identifier-like field of a kept
\* element (_id, id, <element>_id) is in the element's field list.
C13_IdentifiersKept ==
    Sliced =>
        \A i \in DOMAIN sliced :
            { "_id", "id", IdOf(sliced[i].name) }
                \cap Range(SchemaElement(sliced[i].name).cols)
            \subseteq Range(sliced[i].fields)

Fired == Range(analysis.intents)

FirstOf(order, fired) ==
    order[CHOOSE i \in DOMAIN order :
              order[i] \in fired /\ \A j \in 1..(i - 1) : order[j] \notin fired]

\* The intents outside the priority order, in the order of their detectors.
OtherDetectors ==
    << "DATE_TIME", "TEXT_SEARCH", "COMPARISON", "DISTINCT", "NULL_HANDLING",
       "UNION", "SUBQUERY" >>

\* C15: the primary intent is SIMPLE_SELECT when no detector fired; else the
\* first of WINDOW_FUNCTION, GROUPED_AGGREGATION, AGGREGATION, JOIN, RANKING,
\* COMPLEX_FILTER, FILTERED, SORTED, LIMITED that fired; else the intent of
\* the detector that fired first.
C15_PrimaryIntent ==
    pc = "analyzed" =>
        analysis.intent =
            IF Fired = {} THEN "SIMPLE_SELECT"
            ELSE IF Fired \cap Range(priority_order) # {}
                 THEN FirstOf(priority_order, Fired)
                 ELSE FirstOf(OtherDetectors, Fired)

\* An analysis in which a detector of lower priority fired before the one
\* that gives the primary intent.
C15_Witness ==
    /\ pc = "analyzed"
    /\ Len(analysis.intents) >= 2
    /\ analysis.intent \in Range(priority_order)
    /\ analysis.intent # analysis.intents[1]

\* C16 (as claimed): the confidence is 0.8 when no detector fired, else
\* min(0.95, 0.7 + 0.05 n) for the n signals that fired, each counted once
\* (in hundredths).
C16_ConfidenceCountsSignalsOnce ==
    pc = "analyzed" =>
        analysis.confidence =
            IF Fired = {} THEN 80
            ELSE IF 70 + 5 * Cardinality(Fired) < 95
                 THEN 70 + 5 * Cardinality(Fired) ELSE 95

(***************************************************************************)
(* The extraction's properties                                             *)
(***************************************************************************)

\* The lines between the first and the last line of the model output.
Inner == SubSeq(model_output, 2, Len(model_output) - 1)

\* The model output is one fenced block around a SELECT statement: a fence
\* line, the statement's lines, the first beginning with SELECT and at most
\* the last ending in ';', and the closing fence.
OneFencedSelect ==
    /\ Len(model_output) >= 3
    /\ model_output[1] \in { "<fence>sql", "<fence>" }
    /\ model_output[Len(model_output)] = "<fence>"
    /\ StartsSelect(Inner[1])
    /\ \A i \in DOMAIN Inner :
           /\ Inner[i] \notin { "<fence>sql", "<fence>", "", "DELETE FROM users;" }
           /\ i > 1 => ~StartsSelect(Inner[i])
           /\ i < Len(Inner) => ~EndsSemicolon(Inner[i])

NoSelectLine == \A i \in DOMAIN model_output : ~StartsSelect(model_output[i])

\* C17 (as claimed): from one fenced block around a SELECT statement the
\* extraction returns the statement's lines joined by single spaces, without
\* the fence lines and without a closing semicolon; and no line after the
\* first line ending in ';' is ever in the extracted text.
C17_FencedSelectExtracted ==
    pc = "extracted" =>
        /\ OneFencedSelect =>
               extracted =
                   [sep |-> " ",
                    lines |-> [i \in DOMAIN Inner |->
                                  IF i = Len(Inner) THEN Unsemicolon(Strip(Inner[i]))
                                  ELSE Strip(Inner[i])]]
        /\ extracted.sep = " " =>
               \A i \in DOMAIN extracted.lines :
                   i < Len(extracted.lines) => ~EndsSemicolon(extracted.lines[i])

\* C18 (as claimed): when no line of the model output begins with SELECT
\* the extraction returns the trimmed model output unchanged.
C18_FallbackReturnsTrimmedOutput ==
    pc = "extracted" /\ NoSelectLine =>
        extracted = [sep |-> "\n", lines |-> StripText(model_output)]

\* C18 (amended): when no line of the model output begins with SELECT the
\* extraction returns the trimmed model output without its fence lines,
\* trimmed again, its other lines unchanged.
C18_FallbackReturnsUnfencedOutput ==
    pc = "extracted" /\ NoSelectLine =>
        /\ extracted.sep = "\n"
        /\ LET trimmed == StripText(model_output)
               fenced == trimmed[1] \in { "<fence>sql", "<fence>" }
               from == IF fenced /\ Len(trimmed) > 1 THEN 2 ELSE 1
               to == IF fenced /\ trimmed[Len(trimmed)] = "<fence>" /\ from <= Len(trimmed)
                     THEN Len(trimmed) - 1 ELSE Len(trimmed)
           IN  extracted.lines = StripText(SubSeq(trimmed, from, to))

\* The fallback has returned the text of a fenced block, and of an output
\* with lines to trim.
C18_Witness ==
    /\ pc = "extracted"
    /\ NoSelectLine
    /\ model_output[1] = "<fence>sql"
    /\ model_output[Len(model_output)] = "<fence>"
    /\ Len(extracted.lines) = 2
    /\ extracted.lines[2] = "  users;"

(***************************************************************************)
(* The language-model calls of a request                                   *)
(***************************************************************************)

Count(what) == Len(SelectSeq(log, LAMBDA e : e.what = what))

Failed(e) == e.what = "chat_complete" /\ e.raised # ""

\* The error categories ai_ask reports for a failed call of a configured
\* endpoint, on the SQL and on the document-store path.
UpstreamCategories == { "Query generation failed", "Connection failed" }

\* C19 (as claimed): a call of chat_complete without configuration fails
\* with an error type that no upstream failure (timeout, connect error, HTTP
\* error status) has, and the response ai_ask returns after it has an error
\* category that no upstream failure has.
C19_NotConfiguredDistinguishable ==
    \A i \in DOMAIN log :
        Failed(log[i]) /\ log[i].cause = "not_configured" =>
            /\ log[i].raised \notin { chat_complete(c).type : c \in Upstream }
            /\ pc = "done" /\ i = Len(log) /\ ~response.ok
                   => response.error \notin UpstreamCategories

\* C20 (as claimed): in one request the LLM-strategy pipeline runs at most
\* once, the trained strategy falls back to it at most once, no call of the
\* language model follows a failed one, no execution follows a failed one of
\* the LLM strategy, and at most one execution succeeds.
C20_NoRetry ==
    /\ Count("pipeline") <= 1
    /\ Count("fallback") <= 1
    /\ \A i, j \in DOMAIN log :
           i < j /\ Failed(log[i]) => log[j].what # "chat_complete"
    /\ \A i, j \in DOMAIN log :
           i < j /\ log[i] = Step("execute_failed", "llm")
               => log[j].what \notin { "execute_ok", "execute_failed" }
    /\ Count("execute_ok") <= 1

(***************************************************************************)
(* Failures of the execution and what the handler answers                  *)
(***************************************************************************)

\* C21 (as claimed): when the database has rejected a finalized query the
\* request ends with an error body, ok false, that carries the text of the
\* query that failed.
C21_ExecutionFailureReported ==
    pc = "done" /\ Happened("execute_failed") =>
        /\ response.kind = "return"
        /\ ~response.ok
        /\ response.sql # NoSql
        /\ response.sql = executed

\* C21 (amended): when the database rejects the finalized query of the LLM
\* strategy the request ends with the error body "Query execution failed",
\* ok false, that carries the text of that query; when it rejects the query
\* of the trained-model strategy the handler reports nothing and falls back
\* to the LLM strategy, whose outcome is the answer.
C21_LlmExecutionFailureReported ==
    \A i \in DOMAIN log :
        /\ log[i] = Step("execute_failed", "llm") =>
               /\ i = Len(log) /\ pc = "done"
               /\ response.kind = "return"
               /\ ~response.ok
               /\ response.error = "Query execution failed"
               /\ response.sql # NoSql
               /\ response.sql = executed /\ response.sql = sql_final
        /\ log[i] = Step("execute_failed", "trained") =>
               /\ i < Len(log) /\ log[i + 1] = Fallback
               /\ strategy = "llm"

\* The trained model's query was rejected, the handler fell back, and the
\* query of the LLM strategy was rejected too.
C21_Witness ==
    /\ pc = "done"
    /\ Happened("execute_failed")
    /\ log[Len(log)] = Step("execute_failed", "llm")
    /\ \E i \in DOMAIN log : log[i] = Step("execute_failed", "trained")
    /\ response.sql = executed

\* C22 (as claimed): ai_ask always returns a body with an ok flag; no
\* exception leaves the handler.
C22_NeverRaises ==
    pc = "done" => response.kind = "return"

\* C23 (as claimed): every query execute_readonly sends to the database is
\* sent with the statement timeout set just before on the connection; the
\* query is not sent when the timeout could not be set.
C23_TimeoutInForce ==
    \A i \in DOMAIN log :
        log[i].what \in { "execute_ok", "execute_failed" } =>
            /\ i > 1
            /\ log[i - 1] = Step("timeout_set", log[i].by)

\* C25 (as claimed): on the document store the explain request for the
\* query is made before the query is executed, and for the same query.
C25_MongoExplainBeforeExecute ==
    \A i \in DOMAIN storeOps :
        storeOps[i].op \in { "aggregate", "find" } =>
            \E j \in 1..(i - 1) :
                /\ storeOps[j].op = "explain"
                /\ storeOps[j].collection = storeOps[i].collection
                /\ storeOps[i].op = "aggregate" => storeOps[j].pipeline = storeOps[i].pipeline
                /\ storeOps[i].op = "find" => storeOps[j].limit = storeOps[i].limit



\* The first rows=N estimate of a plan text, as re.search finds it; none for
\* the empty text explain returns when its statement raised and for a text
\* without an estimate.
FirstEstimate(p) == IF Len(p) = 0 THEN {} ELSE { p[1] }

\* C30: the plan gate of the LLM strategy fails open. Leaving the plan step,
\* the request is rejected only when the first rows=N estimate of the plan
\* text is above 100000; with an empty text or a first estimate within the
\* ceiling the handler goes on to the execute step with no answer yet, and
\* a query that was executed had no first estimate above the ceiling.
C30_PlanGateFailsOpen ==
    [][ pc = "llm_plan_run" =>
          /\ explained' = sql_final
          /\ IF \E n \in FirstEstimate(plan') : n > PlanCeiling
             THEN /\ pc' = "done" /\ response'.kind = "raise"
                  /\ executed' = NoSql
             ELSE /\ pc' = "llm_exec" /\ response' = response
                  /\ gateTripped' = gateTripped ]_vars

C30_Witness ==
    /\ pc = "done" /\ strategy = "llm"
    /\ plan = <<>>
    /\ explained = sql_final /\ executed = sql_final
    /\ response.kind = "return" /\ response.ok


\* The kinds of the statement nodes of a tree, at any depth.
StatementKinds(sql) == { sql.kind, sql.innerKind } \ { "None" }

\* C29 (as claimed): a query that passed ensure_select_only and
\* ensure_tables_allowed, as every query the LLM strategy plans or executes
\* has, holds no INSERT, UPDATE, DELETE, CREATE, DROP, ALTER, TRUNCATE or
\* MERGE node at any depth.
C29_ReadOnlyWholeTree ==
    pc \in { "llm_plan_run", "llm_exec_run" } =>
        /\ ensure_select_only(draft) = Ok
        /\ ensure_tables_allowed(draft, slice) = Ok
        /\ StatementKinds(sql_final) \cap BLOCK_KINDS = {}


\* The state of the validator a candidate ends in, were it taken through
\* Raw, Parsed, TableChecked, LimitEnforced and Finalized in that order.
ValidatorState(sql, allowed) ==
    IF ensure_select_only(sql) # Ok THEN "Rejected"
    ELSE IF ensure_tables_allowed(sql, allowed) # Ok THEN "Rejected"
    ELSE "Finalized"

\* C26 (as claimed): in either strategy, the text passed to explain or to
\* execute_readonly was rendered by finalize_sql from the limit-enforced
\* tree of a candidate that passed the parse step and the table check; a
\* candidate one of these steps rejects is never planned or executed.
C26_ValidatorIsLinear ==
    (Explaining \/ Executing) =>
        /\ ValidatorState(draft, slice) = "Finalized"
        /\ sql_final = finalize_sql(enforce_limit(draft, limit))


\* ---------------------------------------------------------------------
\* The values of the rows an execution returns
\* ---------------------------------------------------------------------

\* A Python value: its type, str(value), value.isoformat() where the type
\* has the method, json.dumps(value) where the value can be serialized,
\* and float(value) where the normalization asks for it.
Py(type, str, iso, json, float) ==
    [type |-> type, str |-> str, iso |-> iso, json |-> json, float |-> float]

\* A string of the given content and a float of the given digits.
Str(text) == Py("str", text, "", text, "")
Float(digits) == Py("float", digits, "", digits, digits)

\* What the SQL driver returns for the columns of a row: numbers, text,
\* booleans, NULL, numeric, timestamp and date, json/jsonb and array
\* columns, interval.
SqlValues ==
    { Py("int", "5", "", "5", "5.0"),
      Str("abc"),
      Py("bool", "True", "", "true", "1.0"),
      Py("NoneType", "None", "", "null", ""),
      Py("Decimal", "12.50", "", "", "12.5"),
      Py("datetime", "2024-01-02 03:04:05", "2024-01-02T03:04:05", "", ""),
      Py("date", "2024-01-02", "2024-01-02", "", ""),
      Py("dict", "{'a': 1}", "", "{\"a\": 1}", ""),
      Py("list", "['x']", "", "[\"x\"]", ""),
      Py("timedelta", "1:00:00", "", "", "") }

\* What the document store returns for the fields of a document; None
\* also stands for a field the document does not have (doc.get(col)).
MongoValues ==
    { Py("int", "5", "", "5", "5.0"),
      Float("1.5"),
      Str("abc"),
      Py("bool", "True", "", "true", "1.0"),
      Py("NoneType", "None", "", "null", ""),
      Py("ObjectId", "65a000000000000000000001", "", "", ""),
      Py("datetime", "2024-01-02 03:04:05", "2024-01-02T03:04:05", "", ""),
      Py("dict", "{'a': 1}", "", "{\"a\": 1}", ""),
      Py("list", "['x']", "", "[\"x\"]", ""),
      Py("Decimal128", "12.50", "", "", "") }

\* The types with an isoformat method.
HasIsoformat == { "datetime", "date", "time" }

\* _jsonable (app/ai/nl2sql.py).
_jsonable(v) ==
    IF v.type = "Decimal" THEN Float(v.float)
    ELSE IF v.type \in { "date", "datetime", "time" } THEN Str(v.iso)
    ELSE v

\* The conversion of a field in execute_mongodb_query (app/ai/nl2mongo.py):
\* hasattr(value, '__str__') holds of every Python object, so the branch of
\* json.dumps is never taken.
document_value(value) ==
    IF TRUE
    THEN IF value.type \in HasIsoformat THEN Str(value.iso) ELSE Str(value.str)
    ELSE IF value.type \in { "dict", "list" } THEN Str(value.json)
    ELSE value

\* The columns of the rows of a run.
MaxCols == 2

\* The handler is not in a request.
HandlerAtRest ==
    /\ payloadKind = "ok"
    /\ question = {}
    /\ limit = 5
    /\ use_trained = FALSE
    /\ slice = {"users"}
    /\ strategy = "none"
    /\ draft = NoSql /\ sql_final = NoSql /\ plan = <<>>
    /\ explained = NoSql /\ executed = NoSql
    /\ connNext = 0 /\ openConns = {} /\ conn_explain = 0 /\ conn_exec = 0
    /\ trainedError = Ok
    /\ gateTripped = {}
    /\ response = NoResponse
    /\ analysis = NoAnalysis
    /\ mongo_draft = NoQuery
    /\ query_dict = NoQuery
    /\ storeOps = <<>>
    /\ log = <<>>
    /\ NotSlicing
    /\ NotExtracting

InitNormalize ==
    /\ HandlerAtRest
    /\ NotTraining
    /\ backend \in { "sql", "mongo" }
    /\ pc = "rows"
    /\ fetched \in UNION { [1..n -> IF backend = "sql" THEN SqlValues ELSE MongoValues] :
                             n \in 1..MaxCols }
    /\ normalized = <<>>

\* Lines 345-347 of execute_readonly: [_jsonable(v) for v in row].
NormalizeSqlRow ==
    /\ pc = "rows" /\ backend = "sql"
    /\ normalized' = [i \in DOMAIN fetched |-> _jsonable(fetched[i])]
    /\ pc' = "normalized"
    /\ UNCHANGED << handlerVars, slice, analysis, slicerVars, extractVars,
                    fetched, trainVars >>

\* Lines 207-224 of execute_mongodb_query: a row of converted fields.
NormalizeMongoRow ==
    /\ pc = "rows" /\ backend = "mongo"
    /\ normalized' = [i \in DOMAIN fetched |-> document_value(fetched[i])]
    /\ pc' = "normalized"
    /\ UNCHANGED << handlerVars, slice, analysis, slicerVars, extractVars,
                    fetched, trainVars >>

NextNormalize == NormalizeSqlRow \/ NormalizeMongoRow

SpecNormalize == InitNormalize /\ [][NextNormalize]_vars

\* The types of the JSON scalars.
JsonScalars == { "int", "float", "str", "bool", "NoneType" }

\* C24 (as claimed): on both backends every value of a returned row is a
\* JSON scalar: a high-precision numeric has become a float, a temporal
\* value its ISO-8601 text, a nested structure its serialized text, and a
\* value that was a JSON scalar already is returned unchanged.
C24_RowsAreJsonScalars ==
    pc = "normalized" =>
        \A i \in DOMAIN fetched :
            /\ normalized[i].type \in JsonScalars
            /\ fetched[i].type = "Decimal" => normalized[i] = Float(fetched[i].float)
            /\ fetched[i].type \in HasIsoformat => normalized[i] = Str(fetched[i].iso)
            /\ fetched[i].type \in { "dict", "list" } =>
                  normalized[i] = Str(fetched[i].json)
            /\ fetched[i].type \in JsonScalars => normalized[i] = fetched[i]

\* The same statement for the SQL backend alone.
C24_SqlRowsAreJsonScalars == backend = "sql" => C24_RowsAreJsonScalars

\* The same statement for the document backend alone.
C24_MongoRowsAreJsonScalars == backend = "mongo" => C24_RowsAreJsonScalars


\* ---------------------------------------------------------------------
\* The /train route and the progress store
\* ---------------------------------------------------------------------

\* set_progress (app/models/progress.py) on the entry of the schema: the
\* entry is created, in status "training", only when the schema has none.
set_progress(entry, stage) ==
    IF entry = NoProgress
    THEN [status |-> "training", stages |-> {stage}]
    ELSE [entry EXCEPT !.stages = @ \cup {stage}]

clear_progress(entry) ==
    IF entry # NoProgress THEN [entry EXCEPT !.status = "completed"] ELSE entry

set_error(entry) == [entry EXCEPT !.status = "error"]

\* is_training, by the truth value of what it returns (None for a schema
\* without an entry).
is_training(entry) == entry # NoProgress /\ entry.status = "training"

\* The stages ModelTrainer.train reports, in its order.
Stages == << "data_generation", "embeddings", "fine_tuning" >>

\* A task that was scheduled and has not ended: waiting to run, inside
\* train, or between train and save_model.
Running == { "scheduled", "cleared" } \cup Range(Stages)

\* _trainer.load_model(schema_id) finds the model a task saved.
existing_model == \E r \in Requests : task[r] = "saved"

trainKept ==
    << handlerVars, pc, slice, analysis, slicerVars, extractVars, normalizeVars >>

InitTrain ==
    /\ HandlerAtRest
    /\ NotNormalizing
    /\ backend = "sql"
    /\ pc = "train"
    /\ NotTraining

\* Lines 157-187 of train_model: the schema is crawled and the model looked
\* for; the crawl may fail, and an existing model ends the request unless
\* force_retrain is set.
TrainLoad(r) ==
    /\ request[r] = "idle"
    /\ \E force_retrain \in BOOLEAN, crawled \in BOOLEAN :
          request' = [request EXCEPT ![r] =
              IF ~crawled THEN "Schema crawl failed"
              ELSE IF existing_model /\ ~force_retrain THEN "Model already exists"
              ELSE "loaded"]
    /\ UNCHANGED << trainKept, _training_progress, task >>

\* Lines 189-196: the check of is_training.
TrainCheck(r) ==
    /\ request[r] = "loaded"
    /\ request' = [request EXCEPT ![r] =
          IF is_training(_training_progress) THEN "Training already in progress"
          ELSE "free"]
    /\ UNCHANGED << trainKept, _training_progress, task >>

\* Lines 198-215: the task is added and the request answered.
TrainSchedule(r) ==
    /\ request[r] = "free"
    /\ task' = [task EXCEPT ![r] = "scheduled"]
    /\ request' = [request EXCEPT ![r] = "Training started in background"]
    /\ UNCHANGED << trainKept, _training_progress >>

\* train_task enters ModelTrainer.train (the ML dependencies installed),
\* which reports its first stage.
TaskStart(r) ==
    /\ task[r] = "scheduled"
    /\ _training_progress' = set_progress(_training_progress, Stages[1])
    /\ task' = [task EXCEPT ![r] = Stages[1]]
    /\ UNCHANGED << trainKept, request >>

\* train goes on to its next stage.
TaskStage(r) ==
    /\ \E i \in 1..(Len(Stages) - 1) :
          /\ task[r] = Stages[i]
          /\ _training_progress' = set_progress(_training_progress, Stages[i + 1])
          /\ task' = [task EXCEPT ![r] = Stages[i + 1]]
    /\ UNCHANGED << trainKept, request >>

\* A stage raises: set_error in train, and again in train_task.
TaskFail(r) ==
    /\ task[r] \in Range(Stages)
    /\ _training_progress' = set_error(set_error(_training_progress))
    /\ task' = [task EXCEPT ![r] = "failed"]
    /\ UNCHANGED << trainKept, request >>

\* The last stage ends: its last report, then clear_progress.
TaskComplete(r) ==
    /\ task[r] = Stages[Len(Stages)]
    /\ _training_progress' =
          clear_progress(set_progress(_training_progress, Stages[Len(Stages)]))
    /\ task' = [task EXCEPT ![r] = "cleared"]
    /\ UNCHANGED << trainKept, request >>

\* save_model: the model is written, or the exception is recorded.
TaskSave(r) ==
    /\ task[r] = "cleared"
    /\ \/ /\ task' = [task EXCEPT ![r] = "saved"]
          /\ UNCHANGED _training_progress
       \/ /\ task' = [task EXCEPT ![r] = "failed"]
          /\ _training_progress' = set_error(_training_progress)
    /\ UNCHANGED << trainKept, request >>

NextTrain ==
    \E r \in Requests :
        \/ TrainLoad(r)
        \/ TrainCheck(r)
        \/ TrainSchedule(r)
        \/ TaskStart(r)
        \/ TaskStage(r)
        \/ TaskFail(r)
        \/ TaskComplete(r)
        \/ TaskSave(r)

SpecTrain == InitTrain /\ [][NextTrain]_vars

\* C27 (as claimed): whatever the interleaving of the /train requests of a
\* schema, at most one background training task of the schema is scheduled
\* or running at a time.
C27_OneTrainingTask ==
    Cardinality({ r \in Requests : task[r] \in Running }) <= 1

\* C28 (as claimed): is_training is true exactly when a run has reported
\* progress and has neither completed (clear_progress) nor failed
\* (set_error), a retraining run after an earlier one included.
C28_IsTrainingTracksRun ==
    is_training(_training_progress) <=> \E r \in Requests : task[r] \in Range(Stages)

\* A retraining run, alone, reporting progress after the earlier run ended.
Retraining ==
    \E r, q \in Requests :
        /\ task[q] \in { "saved", "failed" }
        /\ task[r] \in Range(Stages)
        /\ ~is_training(_training_progress)

============================================================================
